---- MODULE Spec2Model ----
(***************************************************************************)
(* Model of src-tauri/src/lib.rs: the export_project_zip command.          *)
(*                                                                         *)
(* The command moves its arguments into a closure, hands the closure to    *)
(* the blocking pool (spawn_blocking), awaits the join handle and returns  *)
(* the closure's Result, or "Task join error" when the join itself fails.  *)
(* The closure creates the destination file, wraps it in a zip::ZipWriter, *)
(* and for every entry, in list order, starts a member and writes its      *)
(* payload: io::copy from a source file, or write_all of the inline text.  *)
(* Every fallible call is followed by `?`: the first Err leaves the        *)
(* closure, and the ZipWriter goes out of scope.                           *)
(*                                                                         *)
(* The file system is modelled down to the archive's layout: a file is a   *)
(* sequence of units, each a data byte, a local file header, a central     *)
(* directory header or the end-of-central-directory record, so that what   *)
(* ends up on disk can be read back the way a zip reader reads it.         *)
(*                                                                         *)
(* Behaviour of the zip crate that the calls in lib.rs rely on (a release  *)
(* that has zip::write::SimpleFileOptions, line 31):                       *)
(*   - start_file refuses a name already in the archive                    *)
(*     ("Duplicate filename");                                             *)
(*   - write refuses to let a member grow past the ZIP64 threshold unless  *)
(*     the options set large_file(true), which lines 31-33 do not; it      *)
(*     aborts the member and returns an io::Error;                         *)
(*   - dropping a ZipWriter that was not finished finalizes it (writes the *)
(*     central directory); an error there is only printed to stderr.       *)
(***************************************************************************)
EXTENDS Integers, Sequences, FiniteSets, TLC

VARIABLES fs, task, caller, response, delivered

vars == <<fs, task, caller, response, delivered>>

(***************************************************************************)
(* Bounds of the model                                                     *)
(***************************************************************************)
\* longest entry list of a single build
MaxEntries == 2
\* longest entry list of a build checked for termination
MaxLiveEntries == 2
\* longest entry list of each of two concurrent builds
MaxConcEntries == 1
\* size of io::copy's buffer (std's DEFAULT_BUF_SIZE, scaled down)
BufSize == 2
\* most bytes a member may hold without large_file (ZIP64 threshold, scaled)
LargeFileLimit == 6
\* steps granted to the sequential reference run
SoloFuel == 40

Procs == {1, 2}

Min(a, b) == IF a < b THEN a ELSE b

(***************************************************************************)
(* Files                                                                   *)
(***************************************************************************)
Unit(t, n, a, b) == [t |-> t, n |-> n, a |-> a, b |-> b]
DataByte(x) == Unit("D", "", x, 0)
LocalHeader(name) == Unit("LFH", name, 0, 0)
CentralHeader(m) == Unit("CDH", m.name, m.off, m.len)
EndOfCentralDir(n) == Unit("EOCD", "", n, 0)

NoFile == [exists |-> FALSE, data |-> <<>>]
FileOf(d) == [exists |-> TRUE, data |-> d]

Bytes(s) == [k \in 1..Len(s) |-> DataByte(s[k])]

Paths == {"out", "out2", "nodir/out", "s0", "big", "missing"}

\* "nodir" is the one directory that does not exist
ParentExists(path) == path # "nodir/out"

\* the file system before any build: a stale archive at "out", an empty
\* source file and one that needs several rounds of the copy buffer
InitFS ==
  [p \in Paths |->
     CASE p = "out" -> FileOf(Bytes(<<9>>))
       [] p = "s0"  -> FileOf(<<>>)
       [] p = "big" -> FileOf(Bytes(<<1, 2, 3, 4, 5>>))
       [] OTHER     -> NoFile]

\* a write of `units` at offset pos (0-based); a gap is zero-filled
WriteAt(data, pos, units) ==
  LET n    == Len(data)
      m    == Len(units)
      last == IF pos + m > n THEN pos + m ELSE n
  IN [k \in 1..last |->
        IF k > pos /\ k <= pos + m THEN units[k - pos]
        ELSE IF k <= n THEN data[k]
        ELSE DataByte(0)]

(***************************************************************************)
(* Requests                                                                *)
(***************************************************************************)
None == [some |-> FALSE, v |-> <<>>]
Some(x) == [some |-> TRUE, v |-> x]
NoPath == [some |-> FALSE, v |-> ""]

\* str::as_bytes: the UTF-8 encoding of the text's code points
Utf8(c) ==
  IF c < 128 THEN <<c>>
  ELSE IF c < 2048 THEN <<192 + (c \div 64), 128 + (c % 64)>>
  ELSE <<224 + (c \div 4096), 128 + ((c \div 64) % 64), 128 + (c % 64)>>

RECURSIVE AsBytes(_)
AsBytes(text) ==
  IF text = <<>> THEN <<>>
  ELSE Bytes(Utf8(Head(text))) \o AsBytes(Tail(text))

ZipFileEntry(path, content, source_path) ==
  [path |-> path, content |-> content, source_path |-> source_path]

(***************************************************************************)
(* Results and error messages (the format! calls)                          *)
(***************************************************************************)
NoResult == [tag |-> "none", msg |-> <<>>]
Ok == [tag |-> "Ok", msg |-> <<>>]
Err(msg) == [tag |-> "Err", msg |-> msg]

ErrCreate(path, cause) == <<"Failed to create zip file: ", cause>>
ErrStart(path, cause) == <<"Zip error for ", path, ": ", cause>>
ErrOpen(src, path, cause) == <<"Failed to open source ", src, ": ", cause>>
\* (mutant) the copy error naming the member instead of the source file
ErrCopy_Member(src, path, cause) == <<"Failed to copy ", path, ": ", cause>>
ErrCopy(src, path, cause) == <<"Failed to copy ", src, ": ", cause>>
ErrWrite(path, cause) == <<"Failed to write content for ", path, ": ", cause>>
ErrFinalize(cause) == <<"Failed to finalize zip: ", cause>>
ErrJoin(cause) == <<"Task join error: ", cause>>


(***************************************************************************)
(* The closure handed to spawn_blocking, one operator per call it makes.   *)
(* Each takes the task t (the closure's locals), the file system f and     *)
(* whether the environment fails the call's I/O, and gives the task and    *)
(* file system after the call.                                             *)
(***************************************************************************)
Ret(t, f) == [t |-> t, fs |-> f]

Entry(t) == t.entries[t.i]

\* (mutant) a writer that accepts a name it already holds
IsDuplicate_Off(files, name) == FALSE
\* the ZipWriter's check of a new member's name against its members
IsDuplicate(files, name) == \E k \in 1..Len(files) : files[k].name = name

\* (mutant) a writer that puts the newest member first
InsertMember_Front(files, m) == <<m>> \o files
\* the ZipWriter's list of members, in the order start_file was called
InsertMember(files, m) == Append(files, m)

\* (mutant) the two branches in the other order
PayloadKind_ContentFirst(e) ==
  IF e.content.some THEN "content"
  ELSE IF e.source_path.some THEN "source"
  ELSE "none"
\* lines 41 and 47: `if let Some(src) .. else if let Some(content) ..`
PayloadKind(e) ==
  IF e.source_path.some THEN "source"
  ELSE IF e.content.some THEN "content"
  ELSE "none"

\* (mutant) a read that stops one byte early
ReadChunk_Short(data, rpos) ==
  SubSeq(data, rpos + 1, Min(rpos + BufSize, Len(data)) - 1)
\* one read of io::copy's loop: at most BufSize bytes from offset rpos
ReadChunk(data, rpos) == SubSeq(data, rpos + 1, Min(rpos + BufSize, Len(data)))

\* the end of the loop body: the next entry, or the end of the loop
NextEntry(t) ==
  [t EXCEPT !.i = @ + 1,
            !.pc = IF t.i + 1 > Len(t.entries) THEN "finish" ELSE "start"]

\* (mutant) skip-and-continue: the error is kept and the loop goes on
Fail_Skip(t, msg) ==
  [NextEntry(t) EXCEPT !.err = IF t.err = <<>> THEN msg ELSE t.err]
\* `?` on an Err inside the loop: the closure returns msg, and `zip` is
\* dropped on the way out
Fail(t, msg) == [t EXCEPT !.pc = "drop", !.err = msg]

\* (mutant) a failed create that leaves an empty file at the path
CreateFailed_Touch(t, f, cause) ==
  Ret([t EXCEPT !.pc = "done", !.result = Err(ErrCreate(t.zip_path, cause))],
      [f EXCEPT ![t.zip_path] = FileOf(<<>>)])
\* line 27: File::create fails; nothing was created, the closure returns
CreateFailed(t, f, cause) ==
  Ret([t EXCEPT !.pc = "done", !.result = Err(ErrCreate(t.zip_path, cause))], f)

\* (mutant) every build writes to one fixed path
TargetPath_Fixed(zip_path) == "out"
\* line 24: Path::new(&zip_path), the path the archive is created at
TargetPath(zip_path) == zip_path

\* lines 27-28: File::create (create or truncate), ZipWriter::new
DoCreate(t, f, fault) ==
  IF ~ParentExists(TargetPath(t.zip_path)) THEN CreateFailed(t, f, "NotFound")
  ELSE IF fault THEN CreateFailed(t, f, "io")
  ELSE Ret([t EXCEPT !.pc = IF Len(t.entries) = 0 THEN "finish" ELSE "start",
                     !.i = 1, !.files = <<>>, !.wpos = 0],
           [f EXCEPT ![TargetPath(t.zip_path)] = FileOf(<<>>)])

\* ZipWriter::abort_file: the member is forgotten and the writer seeks back
\* to where its header began
AbortFile(t) ==
  [t EXCEPT !.files = SubSeq(@, 1, Len(@) - 1),
            !.wpos = t.files[Len(t.files)].off]

\* ZipWriter::write of a non-empty buffer into the current member: the bytes
\* go to the file, then the member's size is checked against the limit
ZipWrite(t, f, buf) ==
  LET n  == Len(buf)
      t1 == [t EXCEPT !.wpos = @ + n, !.written = @ + n,
                      !.files[Len(t.files)].len = @ + n]
      f1 == [f EXCEPT ![TargetPath(t.zip_path)].data = WriteAt(@, t.wpos, buf)]
  IN IF t1.written > LargeFileLimit
     THEN [ok |-> FALSE, t |-> AbortFile(t1), fs |-> f1,
           cause |-> "Large file option has not been set"]
     ELSE [ok |-> TRUE, t |-> t1, fs |-> f1, cause |-> ""]

\* lines 37-38: zip.start_file(&entry.path, options), then the branch of
\* lines 41/47 (an entry with neither payload ends the loop body here)
DoStartFile(t, f, fault) ==
  LET e == Entry(t)
      k == PayloadKind(e)
      started == [t EXCEPT !.files = InsertMember(@, [name |-> e.path,
                                                       off |-> t.wpos,
                                                       len |-> 0]),
                           !.wpos = @ + 1, !.written = 0]
  IN IF IsDuplicate(t.files, e.path)
     THEN Ret(Fail(t, ErrStart(e.path, "Duplicate filename")), f)
     ELSE IF fault THEN Ret(Fail(t, ErrStart(e.path, "io")), f)
     ELSE Ret(CASE k = "source"  -> [started EXCEPT !.pc = "open"]
                [] k = "content" -> [started EXCEPT !.pc = "write"]
                [] OTHER         -> NextEntry(started),
              [f EXCEPT ![TargetPath(t.zip_path)].data =
                          WriteAt(@, t.wpos, <<LocalHeader(e.path)>>)])

\* line 42: File::open(&src)
DoOpen(t, f, fault) ==
  LET e  == Entry(t)
      s  == e.source_path.v
      t1 == [t EXCEPT !.opens = Append(@, s)]
  IN IF ~f[s].exists THEN Ret(Fail(t1, ErrOpen(s, e.path, "NotFound")), f)
     ELSE IF fault THEN Ret(Fail(t1, ErrOpen(s, e.path, "io")), f)
     ELSE Ret([t1 EXCEPT !.pc = "copy", !.src = s, !.rpos = 0], f)

\* line 44: one round of io::copy(&mut f, &mut zip): read a chunk; an empty
\* read ends the copy, anything else is written in full to the member
DoCopy(t, f, fault) ==
  LET e     == Entry(t)
      chunk == ReadChunk(f[t.src].data, t.rpos)
      w     == ZipWrite(t, f, chunk)
  IN IF fault THEN Ret(Fail(t, ErrCopy(t.src, e.path, "io")), f)
     ELSE IF chunk = <<>> THEN Ret(NextEntry(t), f)
     ELSE IF w.ok THEN Ret([w.t EXCEPT !.rpos = @ + Len(chunk)], w.fs)
     ELSE Ret(Fail(w.t, ErrCopy(t.src, e.path, w.cause)), w.fs)

\* lines 48-49: zip.write_all(content.as_bytes())
DoWrite(t, f, fault) ==
  LET e   == Entry(t)
      buf == AsBytes(e.content.v)
      w   == ZipWrite(t, f, buf)
  IN IF fault THEN Ret(Fail(t, ErrWrite(e.path, "io")), f)
     ELSE IF buf = <<>> THEN Ret(NextEntry(t), f)
     ELSE IF w.ok THEN Ret(NextEntry(w.t), w.fs)
     ELSE Ret(Fail(w.t, ErrWrite(e.path, w.cause)), w.fs)

\* ZipWriter::finalize: the central directory, one header per member, and
\* the end-of-central-directory record, written where the writer stands
Finalize(t, f) ==
  [f EXCEPT ![TargetPath(t.zip_path)].data =
     WriteAt(@, t.wpos,
             [k \in 1..Len(t.files) |-> CentralHeader(t.files[k])]
               \o <<EndOfCentralDir(Len(t.files))>>)]

\* (mutant) the result of finish ignored
FinishResult_Ok(fault) == Ok
\* lines 53-54: the closure's value, by whether zip.finish() failed
FinishResult(fault) == IF fault THEN Err(ErrFinalize("io")) ELSE Ok

\* lines 53-54: zip.finish(), then Ok(()); when finish fails the writer is
\* dropped as well, and its second attempt is taken to fail the same way
DoFinish(t, f, fault) ==
  Ret([t EXCEPT !.pc = "done", !.finishCalled = TRUE,
                !.result = FinishResult(fault)],
      IF fault THEN f ELSE Finalize(t, f))

\* the ZipWriter dropped by an early return: it is finalized, and a failure
\* to do so is not reported to the closure's caller
DoDrop(t, f, fault) ==
  Ret([t EXCEPT !.pc = "done", !.result = Err(t.err)],
      IF fault THEN f ELSE Finalize(t, f))


(***************************************************************************)
(* The command: dispatch, the worker's steps, the await                    *)
(***************************************************************************)
\* the closure's captured arguments and locals; opens, finishCalled and
\* faulted record what has happened (which files File::open was called on,
\* whether zip.finish() was called, whether the environment failed a call)
NewTask(zip_path, entries, faulty) ==
  [pc |-> "new", zip_path |-> zip_path, entries |-> entries,
   faulty |-> faulty, faulted |-> FALSE,
   i |-> 0, files |-> <<>>, wpos |-> 0, written |-> 0,
   src |-> "", rpos |-> 0, err |-> <<>>, result |-> NoResult,
   opens |-> <<>>, finishCalled |-> FALSE]

NoTask == NewTask("", <<>>, FALSE)

\* the outcomes the environment may give a call of task t
Faults(t) == IF t.faulty THEN BOOLEAN ELSE {FALSE}

\* one call of the closure, Op, made by the worker of p
Call(p, Op(_, _, _)) ==
  \E fault \in Faults(task[p]) :
    LET r == Op(task[p], fs, fault)
    IN /\ task' = [task EXCEPT ![p] = [r.t EXCEPT !.faulted = @ \/ fault]]
       /\ fs' = r.fs

\* line 23: spawn_blocking(move || ..) queues the closure
Dispatch(p) ==
  /\ caller[p] = "invoked"
  /\ caller' = [caller EXCEPT ![p] = "awaiting"]
  /\ task' = [task EXCEPT ![p].pc = "queued"]
  /\ UNCHANGED <<fs, response, delivered>>

\* a thread of the blocking pool picks the closure up
RunTask(p) ==
  /\ task[p].pc = "queued"
  /\ task' = [task EXCEPT ![p].pc = "create"]
  /\ UNCHANGED <<fs, caller, response, delivered>>

\* the runtime shuts down before the closure ran: the join handle
\* resolves to a JoinError
CancelTask(p) ==
  /\ task[p].pc = "queued"
  /\ task[p].faulty
  /\ task' = [task EXCEPT ![p].pc = "cancelled", ![p].faulted = TRUE]
  /\ UNCHANGED <<fs, caller, response, delivered>>

CreateFile(p) ==
  /\ task[p].pc = "create"
  /\ Call(p, DoCreate)
  /\ UNCHANGED <<caller, response, delivered>>

StartFile(p) ==
  /\ task[p].pc = "start"
  /\ Call(p, DoStartFile)
  /\ UNCHANGED <<caller, response, delivered>>

OpenSource(p) ==
  /\ task[p].pc = "open"
  /\ Call(p, DoOpen)
  /\ UNCHANGED <<caller, response, delivered>>

CopyChunk(p) ==
  /\ task[p].pc = "copy"
  /\ Call(p, DoCopy)
  /\ UNCHANGED <<caller, response, delivered>>

WriteContent(p) ==
  /\ task[p].pc = "write"
  /\ Call(p, DoWrite)
  /\ UNCHANGED <<caller, response, delivered>>

Finish(p) ==
  /\ task[p].pc = "finish"
  /\ Call(p, DoFinish)
  /\ UNCHANGED <<caller, response, delivered>>

DropZip(p) ==
  /\ task[p].pc = "drop"
  /\ Call(p, DoDrop)
  /\ UNCHANGED <<caller, response, delivered>>

\* (mutant) a handle that is ready as soon as the closure is queued
JoinReady_Early(t) == t.pc # "new"
\* lines 56-57: the join handle is ready once the closure returned or the
\* task was cancelled
JoinReady(t) == t.pc \in {"done", "cancelled"}

\* line 57: .map_err(|e| format!("Task join error: {}", e))?
JoinResult(t) ==
  IF t.pc = "cancelled" THEN Err(ErrJoin("cancelled")) ELSE t.result

\* lines 56-58: the await resumes and the command returns
Await(p) ==
  /\ caller[p] = "awaiting"
  /\ JoinReady(task[p])
  /\ response' = [response EXCEPT ![p] = JoinResult(task[p])]
  /\ delivered' = [delivered EXCEPT ![p] = @ + 1]
  /\ caller' = [caller EXCEPT ![p] = "resumed"]
  /\ UNCHANGED <<fs, task>>

Worker(p) ==
  \/ RunTask(p)
  \/ CreateFile(p)
  \/ StartFile(p)
  \/ OpenSource(p)
  \/ CopyChunk(p)
  \/ WriteContent(p)
  \/ Finish(p)
  \/ DropZip(p)

Next ==
  \E p \in Procs :
    \/ Dispatch(p)
    \/ CancelTask(p)
    \/ Worker(p)
    \/ Await(p)

(***************************************************************************)
(* Requests the model is run on                                            *)
(***************************************************************************)
OnlyContentOf(e) == e.content.some /\ ~e.source_path.some

Names == {"a", "b"}
\* "A" followed by e-acute, which UTF-8 encodes in two bytes
Texts == {<<65, 233>>}
SourcePaths == {"s0", "big", "missing", "out"}
Dests == {"out", "nodir/out"}

Entries ==
  {ZipFileEntry(n, c, s) :
     n \in Names,
     c \in {None} \cup {Some(x) : x \in Texts},
     s \in {NoPath} \cup {Some(q) : q \in SourcePaths}}

ConcEntries ==
  {ZipFileEntry("a", Some(<<65, 233>>), NoPath)}
    \cup {ZipFileEntry("a", None, Some(q)) : q \in {"big", "out", "out2"}}

\* the payloads that decide how long a build runs: inline text, a source
\* file of several buffers, a missing one, and the archive being built
LiveEntries ==
  {e \in Entries :
     \/ OnlyContentOf(e)
     \/ /\ ~e.content.some
        /\ e.source_path.some
        /\ e.source_path.v \in {"big", "missing", "out"}}

Lists(S, n) == UNION {[1..k -> S] : k \in 0..n}

Quiet == /\ response = [p \in Procs |-> NoResult]
         /\ delivered = [p \in Procs |-> 0]

\* one command invoked
Init ==
  /\ fs = InitFS
  /\ \E zp \in Dests, es \in Lists(Entries, MaxEntries), faulty \in BOOLEAN :
       task = [p \in Procs |-> IF p = 1 THEN NewTask(zp, es, faulty) ELSE NoTask]
  /\ caller = [p \in Procs |-> IF p = 1 THEN "invoked" ELSE "absent"]
  /\ Quiet

\* two commands invoked at once
InitConc ==
  /\ fs = InitFS
  /\ \E z1 \in {"out", "out2"}, e1, e2 \in Lists(ConcEntries, MaxConcEntries),
        fl \in BOOLEAN :
       task = [p \in Procs |-> IF p = 1 THEN NewTask(z1, e1, FALSE)
                               ELSE NewTask("out2", e2, fl)]
  /\ caller = [p \in Procs |-> "invoked"]
  /\ Quiet

\* one command invoked, for the termination check
InitLive ==
  /\ fs = InitFS
  /\ \E zp \in Dests, es \in Lists(LiveEntries, MaxLiveEntries), faulty \in BOOLEAN :
       task = [p \in Procs |-> IF p = 1 THEN NewTask(zp, es, faulty) ELSE NoTask]
  /\ caller = [p \in Procs |-> IF p = 1 THEN "invoked" ELSE "absent"]
  /\ Quiet

Spec == Init /\ [][Next]_vars

SpecConc == InitConc /\ [][Next]_vars

\* the runtime keeps scheduling: a queued closure is run or cancelled, a
\* running closure makes its next call, a ready join handle is awaited
SpecLive ==
  /\ InitLive
  /\ [][Next]_vars
  /\ \A p \in Procs : WF_vars(Dispatch(p) \/ CancelTask(p) \/ Worker(p) \/ Await(p))


(***************************************************************************)
(* Reading the results back                                                *)
(***************************************************************************)
\* where a zip reader finds the end-of-central-directory record: the last
\* one in the file (0: there is none)
EocdAt(data) ==
  LET S == {k \in 1..Len(data) : data[k].t = "EOCD"}
  IN IF S = {} THEN 0 ELSE CHOOSE k \in S : \A j \in S : j <= k

\* the file is a finalized archive: the record, the central headers it
\* counts, and a local header of the same name where each of them points
IsArchive(file) ==
  LET d == file.data
      k == EocdAt(d)
  IN /\ file.exists
     /\ k > 0
     /\ d[k].a < k
     /\ \A j \in (k - d[k].a)..(k - 1) :
          /\ d[j].t = "CDH"
          /\ d[j].a + 1 + d[j].b <= Len(d)
          /\ d[d[j].a + 1].t = "LFH"
          /\ d[d[j].a + 1].n = d[j].n

\* the members of a finalized archive, in central-directory order
ReadArchive(file) ==
  LET d == file.data
      k == EocdAt(d)
      n == d[k].a
  IN [j \in 1..n |->
        LET h == d[k - n + j - 1]
        IN [name |-> h.n, data |-> SubSeq(d, h.a + 2, h.a + 1 + h.b)]]

\* the error kind a message belongs to, by the text it starts with
Kind(msg) ==
  IF msg = <<>> THEN "none"
  ELSE CASE msg[1] = "Failed to create zip file: "    -> "CreateError"
         [] msg[1] = "Zip error for "                 -> "MemberStartError"
         [] msg[1] = "Failed to open source "         -> "SourceOpenError"
         [] msg[1] = "Failed to copy "                -> "CopyError"
         [] msg[1] = "Failed to write content for "   -> "WriteError"
         [] msg[1] = "Failed to finalize zip: "       -> "FinalizeError"
         [] msg[1] = "Task join error: "              -> "DispatchError"
         [] OTHER                                     -> "unknown"

\* the message names x
Carries(msg, x) == \E k \in 2..Len(msg) : msg[k] = x

MemberNames(files) == [k \in 1..Len(files) |-> files[k].name]
EntryPaths(entries) == [k \in 1..Len(entries) |-> entries[k].path]
IsPrefix(a, b) == Len(a) <= Len(b) /\ a = SubSeq(b, 1, Len(a))

Done(t) == t.pc = "done"
Succeeded(t) == Done(t) /\ t.result = Ok
Dest(t) == fs[t.zip_path]

OnlyContent(e) == OnlyContentOf(e)
OnlySource(e) == e.source_path.some /\ ~e.content.some
Both(e) == e.content.some /\ e.source_path.some

(***************************************************************************)
(* C1                                                                      *)
(***************************************************************************)
\* C1: at every point of a build the members the writer has registered are,
\* by name and in order, a prefix of the entry list; and when the build
\* returned success the archive on disk holds exactly one member per entry,
\* the i-th named by the i-th entry's path, sorted or not.
C1_MemberOrder ==
  \A p \in Procs :
    LET t == task[p]
    IN /\ IsPrefix(MemberNames(t.files), EntryPaths(t.entries))
       /\ Succeeded(t) =>
            /\ IsArchive(Dest(t))
            /\ MemberNames(ReadArchive(Dest(t))) = EntryPaths(t.entries)

\* a successful build whose paths are in descending order
C1_Witness ==
  /\ Succeeded(task[1])
  /\ EntryPaths(task[1].entries) = <<"b", "a">>
  /\ MemberNames(ReadArchive(Dest(task[1]))) = <<"b", "a">>

(***************************************************************************)
(* C2                                                                      *)
(***************************************************************************)
\* C2: when the build returned success, the member of an entry with inline
\* text holds the text's UTF-8 bytes, and the member of an entry with a
\* source path holds the source file's bytes, all of them and in order,
\* whether the file is empty or longer than the copy buffer.
C2_PayloadBytes ==
  \A p \in Procs :
    LET t == task[p]
    IN Succeeded(t) =>
         /\ IsArchive(Dest(t))
         /\ Len(ReadArchive(Dest(t))) = Len(t.entries)
         /\ \A k \in 1..Len(t.entries) :
              LET e == t.entries[k]
                  m == ReadArchive(Dest(t))[k]
              IN /\ OnlyContent(e) => m.data = AsBytes(e.content.v)
                 /\ OnlySource(e) => m.data = InitFS[e.source_path.v].data

\* a successful build that copied the five-byte file, the empty file and
\* wrote "A" and e-acute as the three bytes 0x41 0xC3 0xA9
C2_Witness ==
  /\ Succeeded(task[1])
  /\ \E j, k \in 1..Len(task[1].entries) :
       /\ OnlySource(task[1].entries[j])
       /\ task[1].entries[j].source_path.v = "big"
       /\ Len(InitFS["big"].data) > BufSize
       /\ ReadArchive(Dest(task[1]))[j].data = Bytes(<<1, 2, 3, 4, 5>>)
       /\ OnlyContent(task[1].entries[k])
       /\ ReadArchive(Dest(task[1]))[k].data = Bytes(<<65, 195, 169>>)

\* a successful build that copied the empty file into an empty member
C2_WitnessEmpty ==
  /\ Succeeded(task[1])
  /\ Len(task[1].entries) > 0
  /\ OnlySource(task[1].entries[1])
  /\ task[1].entries[1].source_path.v = "s0"
  /\ ReadArchive(Dest(task[1]))[1].data = <<>>

(***************************************************************************)
(* C3                                                                      *)
(***************************************************************************)
\* C3: a build that has returned either reports failure or left a finalized
\* archive with every entry present; zip.finish() is called only after the
\* loop went through every entry without an error; success is returned only
\* when finish succeeded, and a failed finish is reported as FinalizeError.
C3_FinalizedOrFailed ==
  \A p \in Procs :
    LET t == task[p]
    IN /\ Done(t) =>
            \/ t.result.tag = "Err"
            \/ /\ IsArchive(Dest(t))
               /\ MemberNames(ReadArchive(Dest(t))) = EntryPaths(t.entries)
       /\ t.finishCalled =>
            /\ t.i = Len(t.entries) + 1
            /\ t.err = <<>>
       /\ Succeeded(t) => t.finishCalled
       /\ (t.finishCalled /\ ~IsArchive(Dest(t))) =>
            /\ t.result.tag = "Err"
            /\ Kind(t.result.msg) = "FinalizeError"

\* a build of two entries whose finish call failed
C3_Witness ==
  /\ Done(task[1])
  /\ task[1].finishCalled
  /\ Len(task[1].entries) = 2
  /\ Kind(task[1].result.msg) = "FinalizeError"
  /\ ~IsArchive(Dest(task[1]))


(***************************************************************************)
(* C4                                                                      *)
(***************************************************************************)
\* the step of entry t.i failed: the closure holds its first error
Failed(t) == t.err # <<>>

\* the source files entries 1..n ask for
SourcesUpTo(entries, n) ==
  {entries[k].source_path.v : k \in {j \in 1..n : entries[j].source_path.some}}

\* what the build has done after a failure at entry t.i stays within
\* entries 1..i, and control never returns to the loop
StopsAtFirstError(t) ==
  /\ t.pc \in {"drop", "done"}
  /\ Done(t) => t.result = Err(t.err)
  /\ t.i \in 1..Len(t.entries)
  /\ Len(t.files) <= t.i
  /\ IsPrefix(MemberNames(t.files), EntryPaths(t.entries))
  /\ Len(t.opens) <= t.i
  /\ \A k \in 1..Len(t.opens) : t.opens[k] \in SourcesUpTo(t.entries, t.i)
  /\ ~t.finishCalled

\* C4 as stated: after a failure at entry i the build returns that error at
\* once, no later member is registered, no later source is opened, nothing
\* further is written and the archive is not finalized.
C4_Original ==
  \A p \in Procs :
    LET t == task[p]
    IN Failed(t) =>
         /\ StopsAtFirstError(t)
         /\ Done(t) => ~IsArchive(Dest(t))

\* C4 (amended): after a failure at entry i the build returns that error at
\* once: no member of a later entry is registered, no later source file is
\* opened, zip.finish() is not called; what is still written is the central
\* directory that dropping the writer emits, and an archive left that way
\* lists members of entries 1..i only, in entry order.
C4_StopsAtFirstError ==
  \A p \in Procs :
    LET t == task[p]
    IN Failed(t) =>
         /\ StopsAtFirstError(t)
         /\ (Done(t) /\ IsArchive(Dest(t))) =>
              /\ Len(ReadArchive(Dest(t))) <= t.i
              /\ IsPrefix(MemberNames(ReadArchive(Dest(t))),
                          EntryPaths(t.entries))

\* the first of two entries names a missing source file: SourceOpenError,
\* the second entry untouched, and the dropped writer left an archive
C4_Witness ==
  /\ Done(task[1])
  /\ Len(task[1].entries) = 2
  /\ task[1].i = 1
  /\ task[1].entries[2].source_path.some
  /\ task[1].result = Err(<<"Failed to open source ", "missing", ": ", "NotFound">>)
  /\ task[1].opens = <<"missing">>
  /\ IsArchive(Dest(task[1]))
  /\ Len(ReadArchive(Dest(task[1]))) = 1

(***************************************************************************)
(* C5                                                                      *)
(***************************************************************************)
\* C5: when File::create fails the build reports CreateError and has done
\* nothing else: no writer, no member, no source opened, and the file
\* system is as it was.
C5_CreateErrorNoWrites ==
  \A p \in Procs :
    LET t == task[p]
    IN (Done(t) /\ Kind(t.result.msg) = "CreateError") =>
         /\ t.result.tag = "Err"
         /\ fs = InitFS
         /\ t.i = 0 /\ t.wpos = 0
         /\ t.files = <<>>
         /\ t.opens = <<>>
         /\ ~t.finishCalled

\* a build of two entries into a directory that does not exist
C5_Witness ==
  /\ Done(task[1])
  /\ task[1].zip_path = "nodir/out"
  /\ ~ParentExists(task[1].zip_path)
  /\ Len(task[1].entries) = 2
  /\ Kind(task[1].result.msg) = "CreateError"
  /\ ~task[1].faulted

(***************************************************************************)
(* C6                                                                      *)
(***************************************************************************)
\* a step of p's worker at `at` ends in an error of kind k naming x
FailsAs(p, at, k, x) ==
  (task[p].pc = at /\ ~Failed(task[p]) /\ task[p].result = NoResult
     /\ (Failed(task'[p]) \/ task'[p].result.tag = "Err")) =>
    LET msg == IF Failed(task'[p]) THEN task'[p].err ELSE task'[p].result.msg
    IN /\ Kind(msg) = k
       /\ x # "" => Carries(msg, x)

CurrentPath(p) == task[p].entries[task[p].i].path
CurrentSource(p) == task[p].entries[task[p].i].source_path.v

\* the steps of the loop and the finish call, each with its kind and path
EntryStepsFailAsStated(p) ==
  /\ task[p].pc = "start" => FailsAs(p, "start", "MemberStartError", CurrentPath(p))
  /\ task[p].pc = "open" => FailsAs(p, "open", "SourceOpenError", CurrentSource(p))
  /\ task[p].pc = "copy" => FailsAs(p, "copy", "CopyError", CurrentSource(p))
  /\ task[p].pc = "write" => FailsAs(p, "write", "WriteError", CurrentPath(p))
  /\ FailsAs(p, "finish", "FinalizeError", "")

\* DispatchError is what a failed join is reported as, and nothing else is
DispatchIsSeparate(p) ==
  caller[p] = "resumed" =>
    /\ (Kind(response[p].msg) = "DispatchError") <=> (task[p].pc = "cancelled")
    /\ task[p].pc = "done" => response[p] = task[p].result

\* C6 as stated: every failing step is reported as its own kind and carries
\* the relevant path, CreateError the destination path included.
C6_Original ==
  /\ [][\A p \in Procs :
          /\ FailsAs(p, "create", "CreateError", task[p].zip_path)
          /\ EntryStepsFailAsStated(p)]_vars
  /\ [](\A p \in Procs : DispatchIsSeparate(p))

\* C6 (amended): every failing step is reported as its own kind;
\* MemberStartError and WriteError carry the archive path, SourceOpenError
\* and CopyError the source path, each with a cause; CreateError and
\* FinalizeError carry a cause only; DispatchError is reported exactly when
\* the join failed, and a build error is handed to the caller unchanged.
C6_ErrorKinds ==
  /\ [][\A p \in Procs :
          /\ FailsAs(p, "create", "CreateError", "")
          /\ (task[p].pc = "create" /\ task'[p].result.tag = "Err") =>
               task'[p].result.msg =
                 <<"Failed to create zip file: ", task'[p].result.msg[2]>>
          /\ EntryStepsFailAsStated(p)]_vars
  /\ [](\A p \in Procs : DispatchIsSeparate(p))

\* a copy that failed, reported to the caller with the source path
C6_Witness ==
  /\ caller[1] = "resumed"
  /\ Kind(response[1].msg) = "CopyError"
  /\ task[1].i = 2
  /\ Carries(response[1].msg, task[1].entries[2].source_path.v)
  /\ task[1].entries[2].source_path.v # task[1].entries[2].path


(***************************************************************************)
(* C7                                                                      *)
(***************************************************************************)
\* the first entry whose path an earlier entry already has (0: none)
FirstRepeat(entries) ==
  LET S == {k \in 1..Len(entries) :
              \E j \in 1..(k - 1) : entries[j].path = entries[k].path}
  IN IF S = {} THEN 0 ELSE CHOOSE k \in S : \A j \in S : k <= j

AllInline(entries) == \A k \in 1..Len(entries) : OnlyContent(entries[k])

\* the archive holds entries 1..n, each under its path with its own text
HoldsInline(file, entries, n) ==
  /\ IsArchive(file)
  /\ Len(ReadArchive(file)) = n
  /\ \A k \in 1..n :
       /\ ReadArchive(file)[k].name = entries[k].path
       /\ ReadArchive(file)[k].data = AsBytes(entries[k].content.v)

\* C7 as stated: with a path given twice (inline entries, a destination
\* that can be created, I/O that does not fail) the build succeeds and both members are in the archive, in list
\* order, each with its own payload.
C7_Original ==
  \A p \in Procs :
    LET t == task[p]
    IN (Done(t) /\ ~t.faulted /\ ParentExists(t.zip_path)
          /\ AllInline(t.entries) /\ FirstRepeat(t.entries) > 0) =>
         /\ t.result = Ok
         /\ HoldsInline(Dest(t), t.entries, Len(t.entries))

\* C7 (amended): the writer never holds two members of one name; with a
\* path given twice (inline entries, a destination that can be created,
\* I/O that does not fail) start_file
\* refuses the second of them, the build reports MemberStartError for that
\* path, and the archive left behind holds the entries before it, each with
\* its own payload: the repeated entry is not merged into the first, does
\* not overwrite it, and is not written.
C7_DuplicateRejected ==
  \A p \in Procs :
    LET t == task[p]
        r == FirstRepeat(t.entries)
    IN /\ \A j, k \in 1..Len(t.files) :
            t.files[j].name = t.files[k].name => j = k
       /\ (Done(t) /\ ~t.faulted /\ ParentExists(t.zip_path)
             /\ AllInline(t.entries) /\ r > 0) =>
            /\ t.result =
                 Err(<<"Zip error for ", t.entries[r].path, ": ", "Duplicate filename">>)
            /\ HoldsInline(Dest(t), t.entries, r - 1)

\* two inline entries of one path: the second was refused
C7_Witness ==
  /\ Done(task[1])
  /\ ~task[1].faulted
  /\ Len(task[1].entries) = 2
  /\ AllInline(task[1].entries)
  /\ task[1].entries[1].path = task[1].entries[2].path
  /\ Kind(task[1].result.msg) = "MemberStartError"
  /\ Len(ReadArchive(Dest(task[1]))) = 1

(***************************************************************************)
(* C9                                                                      *)
(***************************************************************************)
\* C9 as stated: an entry with both content and source_path is rejected or
\* its member receives no bytes.
C9_Original ==
  \A p \in Procs :
    LET t == task[p]
    IN Succeeded(t) =>
         \A k \in 1..Len(t.entries) :
           Both(t.entries[k]) => ReadArchive(Dest(t))[k].data = <<>>

\* C9 (amended): an entry with both content and source_path is treated as
\* a source_path entry: the source file is opened, a missing one fails the
\* build with SourceOpenError, and on success the member holds the source
\* file's bytes; the inline text is not written.
C9_SourceWins ==
  \A p \in Procs :
    LET t == task[p]
    IN /\ Succeeded(t) =>
            \A k \in 1..Len(t.entries) :
              Both(t.entries[k]) =>
                /\ ReadArchive(Dest(t))[k].data =
                     InitFS[t.entries[k].source_path.v].data
                /\ \E j \in 1..Len(t.opens) :
                     t.opens[j] = t.entries[k].source_path.v
       /\ (t.pc \in {"open", "copy", "write"} /\ Both(Entry(t))) =>
            t.pc # "write"
       /\ (Done(t) /\ ~t.faulted /\ ParentExists(t.zip_path)
             /\ Len(t.entries) > 0
             /\ Both(t.entries[1]) /\ ~InitFS[t.entries[1].source_path.v].exists) =>
            Kind(t.result.msg) = "SourceOpenError"

\* an entry with both the text and the five-byte source file, built
\* successfully: the member holds the file's five bytes
C9_Witness ==
  /\ Succeeded(task[1])
  /\ Len(task[1].entries) > 0
  /\ Both(task[1].entries[1])
  /\ task[1].entries[1].source_path.v = "big"
  /\ ReadArchive(Dest(task[1]))[1].data = Bytes(<<1, 2, 3, 4, 5>>)
  /\ AsBytes(task[1].entries[1].content.v) # <<>>

(***************************************************************************)
(* C8                                                                      *)
(***************************************************************************)
\* the closure's next call when no call of the environment fails
StepAlone(t, f) ==
  CASE t.pc = "create" -> DoCreate(t, f, FALSE)
    [] t.pc = "start"  -> DoStartFile(t, f, FALSE)
    [] t.pc = "open"   -> DoOpen(t, f, FALSE)
    [] t.pc = "copy"   -> DoCopy(t, f, FALSE)
    [] t.pc = "write"  -> DoWrite(t, f, FALSE)
    [] t.pc = "finish" -> DoFinish(t, f, FALSE)
    [] t.pc = "drop"   -> DoDrop(t, f, FALSE)
    [] OTHER           -> Ret(t, f)

RECURSIVE RunAlone(_, _, _)
RunAlone(t, f, fuel) ==
  IF t.pc = "done" \/ fuel = 0 THEN Ret(t, f)
  ELSE LET r == StepAlone(t, f) IN RunAlone(r.t, r.fs, fuel - 1)

\* the build of t's request run by itself from the initial file system
Alone(t) ==
  RunAlone([NewTask(t.zip_path, t.entries, FALSE) EXCEPT !.pc = "create"],
           InitFS, SoloFuel)

SameAsAlone(t) ==
  LET a == Alone(t)
  IN /\ a.t.pc = "done"
     /\ t.result = a.t.result
     /\ fs[t.zip_path] = a.fs[t.zip_path]

\* no entry of t asks for the file u builds
ReadsNot(t, u) ==
  \A k \in 1..Len(t.entries) :
    ~(t.entries[k].source_path.some /\ t.entries[k].source_path.v = u.zip_path)

\* C8 as stated: two builds with distinct destinations, under every
\* interleaving (and I/O that does not fail), each return the result and
\* leave the archive they would when run alone.
C8_Original ==
  (/\ task[1].zip_path # task[2].zip_path
   /\ \A p \in Procs : Done(task[p]) /\ ~task[p].faulted) =>
    \A p \in Procs : SameAsAlone(task[p])

\* C8 (amended): two builds with distinct destinations, neither of which
\* has an entry whose source_path is the other's destination, under every
\* interleaving (and I/O of the build that does not fail), each return the
\* result and leave the archive they would when run alone.
C8_Independent ==
  \A p, q \in Procs :
    (/\ p # q
     /\ task[p].zip_path # task[q].zip_path
     /\ ReadsNot(task[p], task[q])
     /\ Done(task[p]) /\ ~task[p].faulted) =>
      SameAsAlone(task[p])

\* both builds copied the five-byte file into their own archive and
\* succeeded, after steps of the two had alternated
C8_Witness ==
  /\ task[1].zip_path = "out" /\ task[2].zip_path = "out2"
  /\ \A p \in Procs :
       /\ Succeeded(task[p])
       /\ Len(task[p].entries) = 1
       /\ task[p].entries[1].source_path.v = "big"
       /\ SameAsAlone(task[p])

(***************************************************************************)
(* C10                                                                     *)
(***************************************************************************)
\* C10: a dispatched build ends (the closure, once running, returns), the
\* caller gets a response, never more than one, and only after the
\* closure has returned or the task was cancelled.
C10_RunsToCompletion ==
  /\ \A p \in Procs : (task[p].pc = "create") ~> (task[p].pc = "done")
  /\ \A p \in Procs : (caller[p] = "awaiting") ~> (caller[p] = "resumed")
  /\ [](\A p \in Procs :
          /\ delivered[p] <= 1
          /\ caller[p] = "resumed" =>
               /\ delivered[p] = 1
               /\ task[p].pc \in {"done", "cancelled"}
               /\ response[p] # NoResult)

\* a build whose one entry names the archive being built as its source:
\* the copy ended at the member size limit and the caller was answered
C10_Witness ==
  /\ caller[1] = "resumed"
  /\ delivered[1] = 1
  /\ task[1].zip_path = "out"
  /\ Len(task[1].entries) = 1
  /\ task[1].entries[1].source_path.v = task[1].zip_path
  /\ ~task[1].faulted
  /\ response[1] = Err(<<"Failed to copy ", "out", ": ",
                         "Large file option has not been set">>)

====
